---- MODULE Spec2Model ----
(***************************************************************************)
(* A model of the time-cycle analytic engine: pivot detection              *)
(* (engine/pivots.py), the triangle filter (engine/triangle.py),           *)
(* business-calendar aware interval projection and overlap counting        *)
(* (engine/intervals.py, engine/holidays.py), reversal backtesting         *)
(* (engine/backtesting.py) and the order app.py runs them in.              *)
(*                                                                         *)
(* Each engine function is a pure function of its arguments; it is         *)
(* modelled by an operator that computes what the code computes, and by an *)
(* action that applies it to arguments drawn from bounded sets.  Python    *)
(* positions are 0-based; TLA+ sequences are 1-based, so At(s, i) reads    *)
(* position i of a series.  Prices are integers.                           *)
(***************************************************************************)
EXTENDS Integers, Sequences, FiniteSets, TLC

VARIABLES
    \* ---- detect_pivots (engine/pivots.py)
    highs,          \* df["High"].values
    lows,           \* df["Low"].values
    pivot_range,    \* argument pivot_range
    min_move,       \* argument min_move
    return_all,     \* argument return_all
    piv_df,         \* the returned pivot table (a list of rows)
    pcPivots,       \* "idle" | "call" | "done"
    \* ---- project_intervals, count_overlaps (engine/intervals.py)
    pivots_idx,       \* pivots_df["idx"], in table order
    intervals,        \* argument intervals
    use_bars,         \* argument use_bars
    holiday_set,      \* argument holiday_set (a set of dates)
    interval_minutes, \* bar size inferred from the first two session bars
    results,          \* the list of (pivot_ts, iv, projected) built so far
    done_pairs,       \* number of (pivot, interval) pairs already projected
    longest_scan,     \* most iterations any day-scanning while loop has made
    overlaps,         \* the dict count_overlaps returns
    pcProject,        \* "idle" | "loop" | "returned" | "counted"
    \* ---- analyze_all_projections, validate_reversal (engine/backtesting.py)
    price_data,          \* [High, Low, Close]: the columns of the price table
    tolerance_window,    \* argument tolerance_window
    min_success_candles, \* argument min_success_candles
    lookback_candles,    \* argument lookback_candles
    projections,         \* the projections iterated so far
    validation_results,  \* the list of result dicts built so far
    interval_stats,      \* the per-interval statistics returned with them
    pcBacktest,          \* "idle" | "loop" | "raised" | "done"
    \* ---- classify_triangle, calculate_symmetry_score (engine/triangle.py)
    sides,            \* argument sides of classify_triangle (squared lengths)
    tolerance,        \* argument tolerance of classify_triangle
    triangle_type,    \* the shape classify_triangle returned
    symmetry_args,    \* the arguments of calculate_symmetry_score
    symmetry_score,   \* what calculate_symmetry_score did with them
    pcShapes,         \* "idle" | "call" | "classified" | "scored"
    \* ---- filter_pivots_by_triangle and the pipeline of app.py
    triangle_settings, \* the dict triangle_settings
    pivots_df,         \* the table filter_pivots_by_triangle returned
    pcPipeline         \* "idle" | "detect" | "filter" | "filter_raised" |
                       \* "project" | "project_raised" | "projected"

pivotVars == <<highs, lows, pivot_range, min_move, return_all, piv_df, pcPivots>>

projectVars == <<pivots_idx, intervals, use_bars, holiday_set, interval_minutes,
                 results, done_pairs, longest_scan, overlaps, pcProject>>

backtestVars == <<price_data, tolerance_window, min_success_candles, lookback_candles,
                  projections, validation_results, interval_stats, pcBacktest>>

shapeVars == <<sides, tolerance, triangle_type, symmetry_args, symmetry_score, pcShapes>>

pipelineVars == <<triangle_settings, pivots_df, pcPipeline>>

triangleVars == <<shapeVars, pipelineVars>>

vars == <<pivotVars, projectVars, backtestVars, triangleVars>>

None == "None"

----------------------------------------------------------------------------
(* Bounds of the model *)

\* longest price series given to detect_pivots
MaxBars == 5
\* largest window radius given to detect_pivots
MaxRange == 2

\* the values a bar's High and Low are drawn from (High >= Low on every bar)
HighPrices == {2, 3}
LowPrices == {1, 2}
MinMoves == {0, 1, 2}

\* most rows of the pivot table given to project_intervals
MaxPivots == 2
\* most entries of the interval list given to project_intervals
MaxIntervals == 2
\* a run of consecutive non-business days longer than this stands for
\* "unreasonably many" in the iteration-cap requirement
ScanCap == 4

\* Timestamps are [day, minute]: day 0 is a Monday, minute is the minute of
\* the day.  Pivot timestamps: Thu 14:45, Fri 08:00, Fri 15:15, Sat 10:00.
PivotStamps == {[day |-> 3, minute |-> 885], [day |-> 4, minute |-> 480],
                [day |-> 4, minute |-> 915], [day |-> 5, minute |-> 600]}
IntervalValues == {0, 1, 3}
\* the holidays are chosen among Fri, the next Mon and the next Tue
HolidayDays == {4, 7, 8}
BarSizes == {15, 30}

\* largest tolerance window given to the backtester
MaxWindow == 3
\* most projections in one analyze_all_projections batch
MaxProjections == 2

\* The backtested price table is daily: its index holds the business days
\* 0,1,2,3,4 (Mon-Fri), 7,8,9,10 (Mon-Thu), as day numbers.
IndexDays == <<0, 1, 2, 3, 4, 7, 8, 9, 10>>
ClosePrices == {1, 2}
SuccessCounts == {1, 2}
LookbackChoices == {3, 5, 7}
\* (source date, interval, projected date): projected dates are bar 3, a
\* Saturday missing from the index, bar 5 and bar 6
ProjectionInputs == {<<0, 3, 3>>, <<1, 4, 5>>, <<0, 7, 7>>, <<1, 7, 8>>}

\* Sides given to classify_triangle on its own, in tenths of a unit:
\* 10.0, 10.1, 10.2, 10.5, 10.6 and 30.0
SideLengths == {100, 101, 102, 105, 106, 300}
\* shape tolerances in percent (the slider of app.py runs 0 .. 50)
Tolerances == {0, 5, 10}
\* longest left / right duration given to calculate_symmetry_score
MaxSpan == 2
SymmetryPrices == {1, 2, 3}
FloatTypes == {"float", "numpy.float64"}

\* the triangle settings of the pipeline: the filter switched off, the
\* defaults of app.py (time scale 10, tolerance 10, symmetry 70) and others
TriangleSettings ==
    {[enabled |-> FALSE],
     [enabled |-> TRUE, types |-> {"equilateral", "isosceles"}, time_scale |-> 10,
      tolerance |-> 10, min_symmetry |-> 70],
     [enabled |-> TRUE, types |-> {"equilateral", "isosceles", "scalene"}, time_scale |-> 1,
      tolerance |-> 10, min_symmetry |-> 0],
     [enabled |-> TRUE, types |-> {"scalene"}, time_scale |-> 1,
      tolerance |-> 50, min_symmetry |-> 0],
     [enabled |-> TRUE, types |-> {"equilateral", "isosceles"}, time_scale |-> 1,
      tolerance |-> 50, min_symmetry |-> 100]}
\* the interval list of the pipeline
PipelineIntervals == <<1, 3>>

----------------------------------------------------------------------------
(* Helpers for Python sequences *)

At(s, i) == s[i + 1]

\* s[a:b] for 0 <= a <= b <= len(s), as the set of its positions
Positions(a, b) == a .. (b - 1)

\* numpy .max() / .min() of the values of s at the positions P (P non-empty)
WindowMax(s, P) == CHOOSE m \in {At(s, k) : k \in P} : \A k \in P : At(s, k) <= m
WindowMin(s, P) == CHOOSE m \in {At(s, k) : k \in P} : \A k \in P : At(s, k) >= m

\* a slip that takes the larger of the two side moves
Min2_Larger(a, b) == IF a <= b THEN b ELSE a

Min2(a, b) == IF a <= b THEN a ELSE b

SeqsUpTo(S, lo, hi) == UNION {[1 .. n -> S] : n \in lo .. hi}

----------------------------------------------------------------------------
(* engine/pivots.py: detect_pivots *)

window_prev(i, rng) == Positions(i - rng, i)
window_next(i, rng) == Positions(i + 1, i + rng + 1)

is_higher_than_prev(hs, i, rng) == At(hs, i) > WindowMax(hs, window_prev(i, rng))
\* a slip that accepts a tie with the right window
is_higher_than_next_Tie(hs, i, rng) == At(hs, i) >= WindowMax(hs, window_next(i, rng))

is_higher_than_next(hs, i, rng) == At(hs, i) > WindowMax(hs, window_next(i, rng))
is_lower_than_prev(ls, i, rng) == At(ls, i) < WindowMin(ls, window_prev(i, rng))
is_lower_than_next(ls, i, rng) == At(ls, i) < WindowMin(ls, window_next(i, rng))

\* the rows appended for a pivot high at bar i (pivots.py 37-74)
HighRows(hs, ls, i, rng, mm, ra) ==
    LET hp == is_higher_than_prev(hs, i, rng)
        hn == is_higher_than_next(hs, i, rng)
        move_down_prev == At(hs, i) - WindowMin(ls, window_prev(i, rng))
        move_down_next == At(hs, i) - WindowMin(ls, window_next(i, rng))
        min_move_achieved == move_down_prev >= mm /\ move_down_next >= mm
    IN  IF hp /\ hn
        THEN IF min_move_achieved \/ ra
             THEN << [idx |-> i, type |-> "H", price |-> At(hs, i),
                      abs_move |-> Min2(move_down_prev, move_down_next),
                      valid |-> min_move_achieved,
                      rejection_reason |->
                          IF min_move_achieved THEN None
                          ELSE "Insufficient movement"] >>
             ELSE << >>
        ELSE IF ra /\ (hp \/ hn)
        THEN << [idx |-> i, type |-> "H", price |-> At(hs, i),
                 abs_move |-> 0, valid |-> FALSE,
                 rejection_reason |->
                     IF ~hp THEN "Not higher than previous bars"
                     ELSE "Not higher than next bars"] >>
        ELSE << >>

\* the rows appended for a pivot low at bar i (pivots.py 76-113)
LowRows(hs, ls, i, rng, mm, ra) ==
    LET lp == is_lower_than_prev(ls, i, rng)
        ln == is_lower_than_next(ls, i, rng)
        move_up_prev == WindowMax(hs, window_prev(i, rng)) - At(ls, i)
        move_up_next == WindowMax(hs, window_next(i, rng)) - At(ls, i)
        min_move_achieved == move_up_prev >= mm /\ move_up_next >= mm
    IN  IF lp /\ ln
        THEN IF min_move_achieved \/ ra
             THEN << [idx |-> i, type |-> "L", price |-> At(ls, i),
                      abs_move |-> Min2(move_up_prev, move_up_next),
                      valid |-> min_move_achieved,
                      rejection_reason |->
                          IF min_move_achieved THEN None
                          ELSE "Insufficient movement"] >>
             ELSE << >>
        ELSE IF ra /\ (lp \/ ln)
        THEN << [idx |-> i, type |-> "L", price |-> At(ls, i),
                 abs_move |-> 0, valid |-> FALSE,
                 rejection_reason |->
                     IF ~lp THEN "Not lower than previous bars"
                     ELSE "Not lower than next bars"] >>
        ELSE << >>

\* the loop "for i in range(rng, len(df) - rng)" from position i on
RECURSIVE PivotLoop(_, _, _, _, _, _)
PivotLoop(hs, ls, i, rng, mm, ra) ==
    IF i >= Len(hs) - rng THEN << >>
    ELSE HighRows(hs, ls, i, rng, mm, ra) \o LowRows(hs, ls, i, rng, mm, ra)
         \o PivotLoop(hs, ls, i + 1, rng, mm, ra)

\* piv_df[piv_df["valid"]].drop(columns=["valid", "rejection_reason"])
DropValidity(rows) ==
    LET kept == SelectSeq(rows, LAMBDA r : r.valid)
    IN  [k \in 1 .. Len(kept) |->
            [idx |-> kept[k].idx, type |-> kept[k].type,
             price |-> kept[k].price, abs_move |-> kept[k].abs_move]]

detect_pivots(hs, ls, rng, mm, ra) ==
    LET pivots == PivotLoop(hs, ls, rng, rng, mm, ra)
    IN  IF ~ra /\ pivots # << >> THEN DropValidity(pivots) ELSE pivots

\* the price tables detect_pivots is given, the empty one included: every
\* bar has High >= Low
PriceTables ==
    {t \in SeqsUpTo(HighPrices \X LowPrices, 0, MaxBars) : \A k \in DOMAIN t : t[k][1] >= t[k][2]}

PivotsIdle ==
    /\ highs = << >> /\ lows = << >> /\ pivot_range = 0 /\ min_move = 0
    /\ return_all = TRUE /\ piv_df = << >> /\ pcPivots = "idle"

PivotsCall ==
    /\ \E t \in PriceTables :
          /\ highs = [k \in DOMAIN t |-> t[k][1]]
          /\ lows = [k \in DOMAIN t |-> t[k][2]]
    /\ pivot_range \in 1 .. MaxRange
    /\ min_move \in MinMoves
    /\ return_all \in BOOLEAN
    /\ piv_df = << >>
    /\ pcPivots = "call"

DetectPivots ==
    /\ pcPivots = "call"
    /\ piv_df' = detect_pivots(highs, lows, pivot_range, min_move, return_all)
    /\ pcPivots' = "done"
    /\ UNCHANGED <<highs, lows, pivot_range, min_move, return_all>>
    /\ UNCHANGED <<projectVars, backtestVars, triangleVars>>

NextPivots == DetectPivots

----------------------------------------------------------------------------
(* engine/holidays.py: is_business_day; pandas timestamps *)

\* Timestamp.weekday(): Monday is 0
weekday(ts) == ts.day % 7

is_business_day(date, holidays) == weekday(date) < 5 /\ date.day \notin holidays

\* ts + pd.Timedelta(days=n), n may be negative
AddDays(ts, n) == [day |-> ts.day + n, minute |-> ts.minute]
\* ts + pd.Timedelta(minutes=n), within the day
AddMinutes(ts, n) == [day |-> ts.day, minute |-> ts.minute + n]
\* ts.replace(hour=h, minute=m)
ReplaceTime(ts, h, m) == [day |-> ts.day, minute |-> 60 * h + m]

TsLeq(a, b) == a.day < b.day \/ (a.day = b.day /\ a.minute <= b.minute)

\* a slip that iterates the pivots in table order
sort_values_Unsorted(s) == s

\* Series.sort_values(): ascending
RECURSIVE sort_values(_)
sort_values(s) ==
    IF s = << >> THEN << >>
    ELSE LET k == CHOOSE k \in DOMAIN s : \A j \in DOMAIN s : TsLeq(s[k], s[j])
         IN  << s[k] >> \o sort_values([j \in 1 .. (Len(s) - 1) |-> IF j < k THEN s[j] ELSE s[j + 1]])

----------------------------------------------------------------------------
(* engine/intervals.py: project_intervals *)

\* "while <day is not accepted>: day += step"; the day found and the number
\* of iterations made.  The loop has no iteration cap.
RECURSIVE ScanBefore(_, _, _)
ScanBefore(before, holidays, steps) ==
    IF ~is_business_day(before, holidays)
    THEN ScanBefore(AddDays(before, -1), holidays, steps + 1)
    ELSE [ts |-> before, steps |-> steps]

RECURSIVE ScanAfter(_, _, _)
ScanAfter(after, holidays, steps) ==
    IF ~is_business_day(after, holidays)
    THEN ScanAfter(AddDays(after, 1), holidays, steps + 1)
    ELSE [ts |-> after, steps |-> steps]

RECURSIVE NextDayLoop(_, _, _)
NextDayLoop(next_day, holidays, steps) ==
    IF weekday(next_day) >= 5 \/ next_day.day \in holidays
    THEN NextDayLoop(AddDays(next_day, 1), holidays, steps + 1)
    ELSE [ts |-> next_day, steps |-> steps]

next_valid_day(current_time, holidays) ==
    LET found == NextDayLoop(AddDays(current_time, 1), holidays, 0)
    IN  [ts |-> ReplaceTime(found.ts, 9, 15), steps |-> found.steps]

Max2(a, b) == IF a >= b THEN a ELSE b

\* a slip that records the following business day
RecordedDay_After(before, after) == after

\* the date the calendar-days branch records
RecordedDay(before, after) == before

\* calendar-days mode, one (pivot_ts, iv): the projected date recorded and
\* the longest scan made
project_days(pivot_ts, iv, holidays) ==
    LET projected == AddDays(pivot_ts, iv)
    IN  IF is_business_day(projected, holidays)
        THEN [ts |-> projected, steps |-> 0]
        ELSE LET before == ScanBefore(projected, holidays, 0)
                 after == ScanAfter(projected, holidays, 0)
             IN  [ts |-> RecordedDay(before.ts, after.ts),
                  steps |-> Max2(before.steps, after.steps)]

\* bar-count mode: the loop "while total_bars > 0"
RECURSIVE BarLoop(_, _, _, _, _)
BarLoop(projected_time, total_bars, im, holidays, steps) ==
    IF total_bars <= 0 THEN [ts |-> projected_time, steps |-> steps]
    ELSE LET last_start == ReplaceTime(projected_time, 15, 30 - im)
             bars_today == (last_start.minute - projected_time.minute) \div im
             bars_to_consume == Min2(total_bars, bars_today)
             rolled == next_valid_day(projected_time, holidays)
         IN  IF TsLeq(last_start, projected_time)
             THEN BarLoop(rolled.ts, total_bars, im, holidays, Max2(steps, rolled.steps))
             ELSE IF bars_today <= 0
             THEN BarLoop(rolled.ts, total_bars, im, holidays, Max2(steps, rolled.steps))
             ELSE BarLoop(AddMinutes(projected_time, bars_to_consume * im),
                          total_bars - bars_to_consume, im, holidays, steps)

project_bars(pivot_ts, iv, im, holidays) == BarLoop(pivot_ts, iv, im, holidays, 0)

\* the (pivot, interval) pair the nested for loops visit k-th (k from 0)
PairPivot(k) == sort_values(pivots_idx)[(k \div Len(intervals)) + 1]
PairInterval(k) == intervals[(k % Len(intervals)) + 1]

----------------------------------------------------------------------------
(* engine/intervals.py: count_overlaps *)

\* a slip that groups by calendar date, dropping the time of day
OverlapKey_Date(hit) == [day |-> hit[3].day, minute |-> 0]

\* the key a hit is counted under
OverlapKey(hit) == hit[3]

\* Counter(hit[2] for hit in hits): fed one hit after the other
RECURSIVE Counter(_, _)
Counter(hits, counts) ==
    IF hits = << >> THEN counts
    ELSE LET key == OverlapKey(Head(hits))
         IN  Counter(Tail(hits),
                     IF key \in DOMAIN counts
                     THEN [counts EXCEPT ![key] = @ + 1]
                     ELSE [k \in DOMAIN counts \cup {key} |->
                              IF k = key THEN 1 ELSE counts[k]])

count_overlaps(hits) == Counter(hits, << >>)

----------------------------------------------------------------------------
(* project_intervals followed by count_overlaps, as app.py runs them *)

ProjectIdle ==
    /\ pivots_idx = << >> /\ intervals = << >> /\ use_bars = FALSE
    /\ holiday_set = {} /\ interval_minutes = 0 /\ results = << >>
    /\ done_pairs = 0 /\ longest_scan = 0 /\ overlaps = << >>
    /\ pcProject = "idle"

ProjectCall ==
    /\ pivots_idx \in SeqsUpTo(PivotStamps, 1, MaxPivots)
    /\ intervals \in SeqsUpTo(IntervalValues, 1, MaxIntervals)
    /\ holiday_set \in SUBSET HolidayDays
    /\ \/ use_bars = TRUE /\ interval_minutes \in BarSizes
       \/ use_bars = FALSE /\ interval_minutes = 0
    /\ results = << >> /\ done_pairs = 0 /\ longest_scan = 0
    /\ overlaps = << >>
    /\ pcProject = "loop"

Advance(found) ==
    /\ results' = Append(results, <<PairPivot(done_pairs), PairInterval(done_pairs), found.ts>>)
    /\ longest_scan' = Max2(longest_scan, found.steps)
    /\ done_pairs' = done_pairs + 1
    /\ pcProject' = IF done_pairs + 1 = Len(pivots_idx) * Len(intervals)
                    THEN "returned" ELSE "loop"
    /\ UNCHANGED <<pivots_idx, intervals, use_bars, holiday_set, interval_minutes, overlaps>>
    /\ UNCHANGED <<pivotVars, backtestVars, triangleVars>>

\* one pass of the inner loop of the bar-count branch
ProjectBars ==
    /\ pcProject = "loop" /\ use_bars
    /\ Advance(project_bars(PairPivot(done_pairs), PairInterval(done_pairs),
                            interval_minutes, holiday_set))

\* one pass of the inner loop of the calendar-days branch
ProjectDays ==
    /\ pcProject = "loop" /\ ~use_bars
    /\ Advance(project_days(PairPivot(done_pairs), PairInterval(done_pairs), holiday_set))

CountOverlaps ==
    /\ pcProject = "returned"
    /\ overlaps' = count_overlaps(results)
    /\ pcProject' = "counted"
    /\ UNCHANGED <<pivots_idx, intervals, use_bars, holiday_set, interval_minutes,
                   results, done_pairs, longest_scan>>
    /\ UNCHANGED <<pivotVars, backtestVars, triangleVars>>

NextProject == ProjectBars \/ ProjectDays \/ CountOverlaps


----------------------------------------------------------------------------
(* engine/backtesting.py: get_trend_before, validate_reversal *)

\* "date in price_data.index"; get_loc raises KeyError when it is not
InIndex(date) == \E k \in DOMAIN IndexDays : IndexDays[k] = date

\* price_data.index.get_loc(date): the position of a date of the index
get_loc(date) == (CHOOSE k \in DOMAIN IndexDays : IndexDays[k] = date) - 1

\* a date field holding None
NoDate == -1

\* the sign of np.polyfit(arange(n), closes, 1)[0]: the least-squares slope
\* is Sum((x - mean x) * y) / Sum((x - mean x)^2), so it has the sign of
\* Sum((2x - (n - 1)) * y)
RECURSIVE SlopeNumerator(_, _)
SlopeNumerator(closes, x) ==
    IF x >= Len(closes) THEN 0
    ELSE (2 * x - (Len(closes) - 1)) * At(closes, x) + SlopeNumerator(closes, x + 1)

\* the lookback validate_reversal passes on to get_trend_before: none, so
\* get_trend_before runs with its default
DefaultLookback == 5

get_trend_before(pd, projected_date, lookback) ==
    LET before_idx == get_loc(projected_date)
    IN  IF ~InIndex(projected_date) THEN None
        ELSE IF before_idx < lookback THEN None
        ELSE LET closes == SubSeq(pd.Close, before_idx - lookback + 1, before_idx)
             IN  IF SlopeNumerator(closes, 0) > 0 THEN "UP" ELSE "DOWN"

\* a slip that keeps the run count when a bar fails the test
NextCount_NoReset(consecutive_count, qualifies) ==
    IF qualifies THEN consecutive_count + 1 ELSE consecutive_count

\* consecutive_count after one more future candle
NextCount(consecutive_count, qualifies) ==
    IF qualifies THEN consecutive_count + 1 ELSE 0

\* the loop over future_candles from its i-th candle on (i from 1)
RECURSIVE ReversalLoop(_, _, _, _, _, _, _)
ReversalLoop(pd, proj_idx, prior_trend, tw, msc, i, consecutive_count) ==
    IF i > tw THEN [reversal_candle |-> NoDate, candles_to_reversal |-> 0]
    ELSE LET close == At(pd.Close, proj_idx + i)
             proj_close == At(pd.Close, proj_idx)
             qualifies == IF prior_trend = "UP" THEN close < proj_close
                          ELSE close > proj_close
             count == NextCount(consecutive_count, qualifies)
         IN  IF qualifies /\ count >= msc
             THEN [reversal_candle |-> IndexDays[proj_idx + i + 1],
                   candles_to_reversal |-> i - msc + 1]
             ELSE ReversalLoop(pd, proj_idx, prior_trend, tw, msc, i + 1, count)

\* a slip that takes the direction to test from the source pivot's type
TrendDirection_FromPivot(prior_trend, source_pivot_type) ==
    IF source_pivot_type = "H" THEN "UP" ELSE "DOWN"

\* the trend the loop tests against: 'if prior_trend == "UP"'; the source
\* pivot's type is an argument the function never reads
TrendDirection(prior_trend, source_pivot_type) == prior_trend

Failure(prior_trend, reason) ==
    [success |-> FALSE, reversal_date |-> NoDate, candles_to_reversal |-> 0,
     prior_trend |-> prior_trend, reason |-> reason]

validate_reversal(pd, projected_date, source_pivot_type, tw, msc) ==
    IF ~InIndex(projected_date)
    THEN Failure(None, "Projected date not in data")
    ELSE LET prior_trend == get_trend_before(pd, projected_date, DefaultLookback)
             proj_idx == get_loc(projected_date)
         IN  IF prior_trend = None
             THEN Failure(None, "Insufficient data before projection")
             ELSE IF proj_idx + tw >= Len(pd.Close)
             THEN Failure(prior_trend, "Insufficient future data")
             ELSE LET found == ReversalLoop(pd, proj_idx,
                                            TrendDirection(prior_trend, source_pivot_type),
                                            tw, msc, 1, 0)
                  IN  [success |-> found.reversal_candle # NoDate,
                       reversal_date |-> found.reversal_candle,
                       candles_to_reversal |-> found.candles_to_reversal,
                       prior_trend |-> prior_trend,
                       reason |-> IF found.reversal_candle # NoDate THEN "Success"
                                  ELSE "No reversal within window"]

----------------------------------------------------------------------------
(* engine/backtesting.py: analyze_all_projections *)

Abs(x) == IF x >= 0 THEN x ELSE -x

\* the pivot type re-derived from the source candle
source_type(pd, source_idx) ==
    IF Abs(At(pd.High, source_idx) - At(pd.Close, source_idx))
           < Abs(At(pd.Close, source_idx) - At(pd.Low, source_idx))
    THEN "H" ELSE "L"

\* the result dict appended for one projection (source date in the index)
analyze_projection(pd, projection, tw, msc, lookback) ==
    LET source_idx == get_loc(projection[1])
        result == validate_reversal(pd, projection[3], source_type(pd, source_idx), tw, msc)
    IN  [success |-> result.success, reversal_date |-> result.reversal_date,
         candles_to_reversal |-> result.candles_to_reversal,
         prior_trend |-> result.prior_trend, reason |-> result.reason,
         source_date |-> projection[1], interval |-> projection[2],
         projected_date |-> projection[3]]

\* a slip that leaves the rate a fraction of 1
Percent_Fraction(n, d) == [num |-> n, den |-> d]

\* a float quotient 100 * n / d, kept exact as numerator and denominator
Percent(n, d) == [num |-> 100 * n, den |-> d]

\* the statistics of one interval after the first loop of analyze_intervals
RECURSIVE IntervalCounts(_, _)
IntervalCounts(rs, interval) ==
    IF rs = << >>
    THEN [total_count |-> 0, success_count |-> 0, immediate_reversals |-> 0,
          total_candles_to_reversal |-> 0, reversal_dates |-> << >>]
    ELSE LET rest == IntervalCounts(SubSeq(rs, 1, Len(rs) - 1), interval)
             result == rs[Len(rs)]
         IN  IF result.interval # interval THEN rest
             ELSE IF ~result.success
             THEN [rest EXCEPT !.total_count = @ + 1]
             ELSE [rest EXCEPT
                     !.total_count = @ + 1,
                     !.success_count = @ + 1,
                     !.total_candles_to_reversal = @ + result.candles_to_reversal,
                     !.reversal_dates = Append(@, result.projected_date),
                     !.immediate_reversals =
                         IF result.candles_to_reversal = 1 THEN @ + 1 ELSE @]

analyze_intervals(rs) ==
    [interval \in {rs[k].interval : k \in DOMAIN rs} |->
        LET stats == IntervalCounts(rs, interval)
        IN  [total_count |-> stats.total_count,
             success_count |-> stats.success_count,
             immediate_reversals |-> stats.immediate_reversals,
             total_candles_to_reversal |-> stats.total_candles_to_reversal,
             reversal_dates |-> stats.reversal_dates,
             success_rate |-> Percent(stats.success_count, stats.total_count),
             immediate_reversal_rate |-> Percent(stats.immediate_reversals, stats.total_count),
             avg_candles_to_reversal |->
                 IF stats.success_count > 0
                 THEN [num |-> stats.total_candles_to_reversal, den |-> stats.success_count]
                 ELSE [num |-> 0, den |-> 1]]]

\* the price tables given to the backtester: closes drawn freely, the close
\* of even bars nearer the high, of odd bars nearer the low
PriceData ==
    {[Close |-> c,
      High |-> [k \in DOMAIN c |-> c[k] + (IF k % 2 = 1 THEN 0 ELSE 1)],
      Low |-> [k \in DOMAIN c |-> c[k] - (IF k % 2 = 1 THEN 1 ELSE 0)]] :
        c \in [DOMAIN IndexDays -> ClosePrices]}

BacktestIdle ==
    /\ price_data = << >> /\ tolerance_window = 0 /\ min_success_candles = 0
    /\ lookback_candles = 0 /\ projections = << >> /\ validation_results = << >>
    /\ interval_stats = << >> /\ pcBacktest = "idle"

BacktestCall ==
    /\ price_data \in PriceData
    /\ tolerance_window \in 1 .. MaxWindow
    /\ min_success_candles \in SuccessCounts
    /\ lookback_candles \in LookbackChoices
    /\ projections = << >> /\ validation_results = << >>
    /\ interval_stats = << >>
    /\ pcBacktest = "loop"

\* one pass of "for source_date, interval, proj_date in projections"
AnalyzeProjection ==
    /\ pcBacktest = "loop"
    /\ Len(projections) < MaxProjections
    /\ \E projection \in ProjectionInputs :
          /\ projections' = Append(projections, projection)
          /\ IF ~InIndex(projection[1])
             THEN /\ pcBacktest' = "raised"
                  /\ UNCHANGED validation_results
             ELSE /\ validation_results' =
                        Append(validation_results,
                               analyze_projection(price_data, projection, tolerance_window,
                                                  min_success_candles, lookback_candles))
                  /\ UNCHANGED pcBacktest
    /\ UNCHANGED <<price_data, tolerance_window, min_success_candles, lookback_candles,
                   interval_stats>>
    /\ UNCHANGED <<pivotVars, projectVars, triangleVars>>

\* the projection list is exhausted: analyze_intervals runs and both results
\* are returned
ReturnAnalysis ==
    /\ pcBacktest = "loop"
    /\ projections # << >>
    /\ interval_stats' = analyze_intervals(validation_results)
    /\ pcBacktest' = "done"
    /\ UNCHANGED <<price_data, tolerance_window, min_success_candles, lookback_candles,
                   projections, validation_results>>
    /\ UNCHANGED <<pivotVars, projectVars, triangleVars>>

NextBacktest == AnalyzeProjection \/ ReturnAnalysis

----------------------------------------------------------------------------
(* engine/triangle.py: calculate_distance, classify_triangle,              *)
(* calculate_symmetry_score                                                *)

\* A side of a triangle is a square root (np.sqrt), irrational in general.
\* The model keeps a side as the SQUARE of its length, an integer, and
\* compares ratios of sides through their squares; floating-point rounding
\* is left out.  A point is <<day, price>>.
Sq(x) == x * x

calculate_distance(point1, point2, time_scale) ==
    LET time_diff == point2[1] - point1[1]
        price_diff == point2[2] - point1[2]
    IN  Sq(time_diff * time_scale) + Sq(price_diff)

\* x / y <= 1 + tol / 100, for the sides x, y > 0 given by their squares
RatioWithin(x, y, tol) == 10000 * x <= Sq(100 + tol) * y

\* a slip that takes the sides in the order given
sorted_Unsorted(s) == s

\* sorted(sides) for three sides
sorted(s) ==
    LET lo == Min2(s[1], Min2(s[2], s[3]))
        hi == Max2(s[1], Max2(s[2], s[3]))
    IN  <<lo, s[1] + s[2] + s[3] - lo - hi, hi>>

\* a slip that compares only the two longest sides
isosceles_test_UpperPair(al, ar, lr, tol) == RatioWithin(lr, ar, tol)

\* the condition of the second "if" of classify_triangle
isosceles_test(al, ar, lr, tol) == RatioWithin(ar, al, tol) \/ RatioWithin(lr, ar, tol)

classify_triangle(s, tol) ==
    LET t == sorted(s)
        al == t[1]
        ar == t[2]
        lr == t[3]
    IN  IF RatioWithin(lr, al, tol) THEN "equilateral"
        ELSE IF isosceles_test(al, ar, lr, tol) THEN "isosceles"
        ELSE "scalene"

\* 100 * (1 - diff / largest) as the fraction num / den.  With largest = 0
\* the division fails the way its operands' type makes it fail: on_zero is
\* "ZeroDivisionError" (int, float) or "nan" (numpy.float64: 0.0 / 0.0).
SymmetryTerm(diff, largest, on_zero) ==
    IF largest = 0 THEN [status |-> on_zero, num |-> 0, den |-> 1]
    ELSE [status |-> "ok", num |-> 100 * (largest - diff), den |-> largest]

\* float_type is the type of the three price arguments: "float" or
\* "numpy.float64" (what the price table holds); the positions are ints
calculate_symmetry_score(pivot_idx, left_idx, right_idx, pivot_price, left_price, right_price, float_type) ==
    LET left_duration == pivot_idx - left_idx
        right_duration == right_idx - pivot_idx
        time_symmetry == SymmetryTerm(Abs(left_duration - right_duration),
                                      Max2(left_duration, right_duration),
                                      "ZeroDivisionError")
        left_move == Abs(pivot_price - left_price)
        right_move == Abs(pivot_price - right_price)
        move_symmetry == SymmetryTerm(Abs(left_move - right_move),
                                      Max2(left_move, right_move),
                                      IF float_type = "float"
                                      THEN "ZeroDivisionError" ELSE "nan")
    IN  IF time_symmetry.status # "ok" THEN time_symmetry
        ELSE IF move_symmetry.status # "ok" THEN move_symmetry
        ELSE [status |-> "ok",
              num |-> time_symmetry.num * move_symmetry.den
                      + move_symmetry.num * time_symmetry.den,
              den |-> 2 * time_symmetry.den * move_symmetry.den]

NoScore == [status |-> "idle", num |-> 0, den |-> 1]

ShapesIdle ==
    /\ sides = << >> /\ tolerance = 0 /\ triangle_type = None
    /\ symmetry_args = << >> /\ symmetry_score = NoScore
    /\ pcShapes = "idle"

ShapesCall ==
    /\ sides = << >> /\ tolerance = 0 /\ triangle_type = None
    /\ symmetry_args = << >> /\ symmetry_score = NoScore
    /\ pcShapes = "call"

\* classify_triangle called on three sides in any order
ClassifyTriangle ==
    /\ pcShapes = "call"
    /\ \E s \in [1 .. 3 -> SideLengths], tol \in Tolerances :
          /\ sides' = [k \in 1 .. 3 |-> Sq(s[k])]
          /\ tolerance' = tol
          /\ triangle_type' = classify_triangle([k \in 1 .. 3 |-> Sq(s[k])], tol)
    /\ pcShapes' = "classified"
    /\ UNCHANGED <<symmetry_args, symmetry_score, pipelineVars>>
    /\ UNCHANGED <<pivotVars, projectVars, backtestVars>>

\* calculate_symmetry_score called with durations 0 .. MaxSpan
CalculateSymmetry ==
    /\ pcShapes = "call"
    /\ \E ld \in 0 .. MaxSpan, rd \in 0 .. MaxSpan, p \in [1 .. 3 -> SymmetryPrices],
          ft \in FloatTypes :
          /\ symmetry_args' = [pivot_idx |-> MaxSpan, left_idx |-> MaxSpan - ld,
                               right_idx |-> MaxSpan + rd, pivot_price |-> p[1],
                               left_price |-> p[2], right_price |-> p[3],
                               float_type |-> ft]
          /\ symmetry_score' = calculate_symmetry_score(MaxSpan, MaxSpan - ld, MaxSpan + rd,
                                                        p[1], p[2], p[3], ft)
    /\ pcShapes' = "scored"
    /\ UNCHANGED <<sides, tolerance, triangle_type, pipelineVars>>
    /\ UNCHANGED <<pivotVars, projectVars, backtestVars>>

NextShapes == ClassifyTriangle \/ CalculateSymmetry

----------------------------------------------------------------------------
(* engine/triangle.py: analyze_triangle_formation, filter_pivots_by_triangle *)

\* df.index of the daily price table of the pipeline: bar i is the i-th
\* business day from a Monday, as a day number
DayOf(i) == i + 2 * (i \div 5)

Stamp(i) == [day |-> DayOf(i), minute |-> 0]

\* Series.idxmin() over the positions P (P non-empty): the first position
\* holding the minimum
idxmin(s, P) == CHOOSE k \in P : \A j \in P : At(s, k) < At(s, j) \/ (At(s, k) = At(s, j) /\ k <= j)

\* the result is the dict (status "ok"), None (empty right window) or the
\* ValueError idxmin raises on an empty left window
analyze_triangle_formation(ls, pivot_idx, rng, pivot_price, time_scale, tol) ==
    LET left_start == Max2(0, pivot_idx - rng)
        left_window == Positions(left_start, pivot_idx)
        right_end == Min2(Len(ls), pivot_idx + rng + 1)
        right_window == Positions(pivot_idx + 1, right_end)
    IN  IF left_window = {} THEN [status |-> "ValueError"]
        ELSE IF right_window = {} THEN [status |-> "None"]
        ELSE LET left_bar_idx == idxmin(ls, left_window)
                 left_price == At(ls, left_bar_idx)
                 right_bar_idx == idxmin(ls, right_window)
                 right_price == At(ls, right_bar_idx)
                 apex == <<DayOf(pivot_idx), pivot_price>>
                 left_base == <<DayOf(left_bar_idx), left_price>>
                 right_base == <<DayOf(right_bar_idx), right_price>>
                 al == calculate_distance(apex, left_base, time_scale)
                 ar == calculate_distance(apex, right_base, time_scale)
                 lr == calculate_distance(left_base, right_base, time_scale)
                 symmetry == calculate_symmetry_score(pivot_idx, left_bar_idx, right_bar_idx,
                                                      pivot_price, left_price, right_price,
                                                      "numpy.float64")
             IN  IF symmetry.status = "ZeroDivisionError" THEN [status |-> "ZeroDivisionError"]
                 ELSE [status |-> "ok",
                       type |-> classify_triangle(<<al, ar, lr>>, tol),
                       symmetry_score |-> symmetry,
                       left_base_idx |-> left_bar_idx, left_base_price |-> left_price,
                       right_base_idx |-> right_bar_idx, right_base_price |-> right_price,
                       sides |-> [AL |-> al, AR |-> ar, LR |-> lr]]

\* a slip that keeps a pivot high meeting either criterion
meets_criteria_Either(triangle_info, triangle_types, min_symmetry) ==
    \/ triangle_info.type \in triangle_types
    \/ /\ triangle_info.symmetry_score.status = "ok"
       /\ triangle_info.symmetry_score.num >= min_symmetry * triangle_info.symmetry_score.den

\* type in triangle_types and symmetry_score >= min_symmetry (false for nan)
meets_criteria(triangle_info, triangle_types, min_symmetry) ==
    /\ triangle_info.type \in triangle_types
    /\ triangle_info.symmetry_score.status = "ok"
    /\ triangle_info.symmetry_score.num >= min_symmetry * triangle_info.symmetry_score.den

\* pivot.copy() with the three triangle columns set
enhanced_pivot(pivot, triangle_info) ==
    [c \in DOMAIN pivot \cup {"triangle_type", "symmetry_score", "triangle_info"} |->
        IF c = "triangle_type" THEN triangle_info.type
        ELSE IF c = "symmetry_score" THEN triangle_info.symmetry_score
        ELSE IF c = "triangle_info" THEN triangle_info
        ELSE pivot[c]]

TriangleOf(ls, pivot, settings, rng) ==
    analyze_triangle_formation(ls, pivot.idx, rng, pivot.price,
                               settings.time_scale, settings.tolerance)

\* the loop "for _, pivot in pivots_df.iterrows()"
RECURSIVE FilterLoop(_, _, _, _)
FilterLoop(ls, pivots, settings, rng) ==
    IF pivots = << >> THEN << >>
    ELSE LET pivot == Head(pivots)
             triangle_info == TriangleOf(ls, pivot, settings, rng)
             rest == FilterLoop(ls, Tail(pivots), settings, rng)
         IN  IF pivot.type # "H" THEN <<pivot>> \o rest
             ELSE IF triangle_info.status = "None" THEN rest
             ELSE IF meets_criteria(triangle_info, settings.types, settings.min_symmetry)
             THEN <<enhanced_pivot(pivot, triangle_info)>> \o rest
             ELSE rest

\* an exception of analyze_triangle_formation leaves filter_pivots_by_triangle
FilterRaises(ls, pivots, settings, rng) ==
    /\ settings.enabled
    /\ \E k \in DOMAIN pivots :
          /\ pivots[k].type = "H"
          /\ TriangleOf(ls, pivots[k], settings, rng).status \in {"ValueError", "ZeroDivisionError"}

filter_pivots_by_triangle(ls, pivots, settings, rng) ==
    IF ~settings.enabled THEN pivots ELSE FilterLoop(ls, pivots, settings, rng)

\* project_intervals as a whole: the list it returns
project_intervals(idx, ivs, bars, im, holidays) ==
    LET ordered == sort_values(idx)
    IN  [k \in 1 .. Len(idx) * Len(ivs) |->
            LET pivot_ts == ordered[((k - 1) \div Len(ivs)) + 1]
                iv == ivs[((k - 1) % Len(ivs)) + 1]
            IN  <<pivot_ts, iv,
                  IF bars THEN project_bars(pivot_ts, iv, im, holidays).ts
                  ELSE project_days(pivot_ts, iv, holidays).ts>>]

----------------------------------------------------------------------------
(* The pipeline of app.py: detect_pivots, filter_pivots_by_triangle,        *)
(* project_intervals on a daily price table                                 *)

PipelineIdle ==
    /\ triangle_settings = [enabled |-> FALSE] /\ pivots_df = << >>
    /\ pcPipeline = "idle"

PipelineCall ==
    /\ \E t \in PriceTables :
          /\ highs = [k \in DOMAIN t |-> t[k][1]]
          /\ lows = [k \in DOMAIN t |-> t[k][2]]
    /\ pivot_range \in 1 .. MaxRange
    /\ min_move \in MinMoves
    /\ return_all = TRUE
    /\ piv_df = << >>
    /\ pcPivots = "idle"
    /\ triangle_settings \in TriangleSettings
    /\ pivots_df = << >>
    /\ pcPipeline = "detect"

\* all_pivots_df = detect_pivots(price_df, pivot_range, min_move)
PipelineDetect ==
    /\ pcPipeline = "detect"
    /\ piv_df' = detect_pivots(highs, lows, pivot_range, min_move, return_all)
    /\ pcPipeline' = "filter"
    /\ UNCHANGED <<highs, lows, pivot_range, min_move, return_all, pcPivots>>
    /\ UNCHANGED <<triangle_settings, pivots_df>>
    /\ UNCHANGED <<projectVars, backtestVars, shapeVars>>

\* pivots_df = filter_pivots_by_triangle(price_df, all_pivots_df, settings)
PipelineFilter ==
    /\ pcPipeline = "filter"
    /\ IF FilterRaises(lows, piv_df, triangle_settings, pivot_range)
       THEN pcPipeline' = "filter_raised" /\ UNCHANGED pivots_df
       ELSE /\ pivots_df' = filter_pivots_by_triangle(lows, piv_df, triangle_settings,
                                                      pivot_range)
            /\ pcPipeline' = "project"
    /\ UNCHANGED triangle_settings
    /\ UNCHANGED <<pivotVars, projectVars, backtestVars, shapeVars>>

\* project_intervals(pivots_df, iv_list, use_bars, price_df, holiday_set) in
\* calendar-days mode; an empty table has no "idx" column (KeyError)
PipelineProject ==
    /\ pcPipeline = "project"
    /\ IF pivots_df = << >>
       THEN pcPipeline' = "project_raised" /\ UNCHANGED <<pivots_idx, intervals, results>>
       ELSE /\ pivots_idx' = [k \in DOMAIN pivots_df |-> Stamp(pivots_df[k].idx)]
            /\ intervals' = PipelineIntervals
            /\ results' = project_intervals([k \in DOMAIN pivots_df |-> Stamp(pivots_df[k].idx)],
                                            PipelineIntervals, FALSE, 0, holiday_set)
            /\ pcPipeline' = "projected"
    /\ UNCHANGED <<use_bars, holiday_set, interval_minutes, done_pairs, longest_scan,
                   overlaps, pcProject>>
    /\ UNCHANGED <<pivotVars, backtestVars, shapeVars, triangle_settings, pivots_df>>

NextPipeline == PipelineDetect \/ PipelineFilter \/ PipelineProject

----------------------------------------------------------------------------
(* Specifications *)

InitPivots == PivotsCall /\ ProjectIdle /\ BacktestIdle /\ ShapesIdle /\ PipelineIdle

SpecPivots == InitPivots /\ [][NextPivots]_vars

InitProject == ProjectCall /\ PivotsIdle /\ BacktestIdle /\ ShapesIdle /\ PipelineIdle

SpecProject == InitProject /\ [][NextProject]_vars

InitBacktest == BacktestCall /\ PivotsIdle /\ ProjectIdle /\ ShapesIdle /\ PipelineIdle

SpecBacktest == InitBacktest /\ [][NextBacktest]_vars

InitShapes == ShapesCall /\ PivotsIdle /\ ProjectIdle /\ BacktestIdle /\ PipelineIdle

SpecShapes == InitShapes /\ [][NextShapes]_vars

InitPipeline == PipelineCall /\ ProjectIdle /\ BacktestIdle /\ ShapesIdle

SpecPipeline == InitPipeline /\ [][NextPipeline]_vars

----------------------------------------------------------------------------
(* Properties of detect_pivots *)

\* the bars the scan visits: R <= i < length - R
ScannedBars == pivot_range .. (Len(highs) - pivot_range - 1)

LeftBars(i) == (i - pivot_range) .. (i - 1)
RightBars(i) == (i + 1) .. (i + pivot_range)

HighDominates(i, side) == \A k \in side : At(highs, k) < At(highs, i)
LowDominates(i, side) == \A k \in side : At(lows, k) > At(lows, i)

RowsOf(i, kind) == {r \in DOMAIN piv_df : piv_df[r].idx = i /\ piv_df[r].type = kind}

PivotsReturned == pcPivots = "done" /\ return_all

\* C1 as stated: with the default return_all, a High candidate is emitted at
\* a scanned bar exactly when its high strictly exceeds every high of the R
\* bars before it and every high of the R bars after it, a Low candidate
\* exactly when its low is strictly below every low of both windows; a bar
\* that dominates on one side only is not emitted.
C1_EmittedIffTwoSided ==
    PivotsReturned =>
        \A i \in ScannedBars :
            /\ (RowsOf(i, "H") # {}) <=>
                   (HighDominates(i, LeftBars(i)) /\ HighDominates(i, RightBars(i)))
            /\ (RowsOf(i, "L") # {}) <=>
                   (LowDominates(i, LeftBars(i)) /\ LowDominates(i, RightBars(i)))

\* C1 amended: with the default return_all, a High candidate is emitted at a
\* scanned bar exactly when its high strictly exceeds every high of the R
\* bars before it OR every high of the R bars after it (mirrored for Low);
\* there is at most one candidate per bar and kind and none outside the
\* scanned bars; a candidate flagged valid dominates on both sides, and a bar
\* that dominates on one side only is emitted flagged invalid, with move 0
\* and a rejection reason naming the side that failed.
C1_EmittedIffSomeSide ==
    PivotsReturned =>
        /\ \A r \in DOMAIN piv_df : piv_df[r].idx \in ScannedBars
        /\ \A i \in ScannedBars :
            LET hp == HighDominates(i, LeftBars(i))
                hn == HighDominates(i, RightBars(i))
                lp == LowDominates(i, LeftBars(i))
                ln == LowDominates(i, RightBars(i))
            IN  /\ Cardinality(RowsOf(i, "H")) = (IF hp \/ hn THEN 1 ELSE 0)
                /\ Cardinality(RowsOf(i, "L")) = (IF lp \/ ln THEN 1 ELSE 0)
                /\ \A r \in RowsOf(i, "H") :
                      /\ piv_df[r].price = At(highs, i)
                      /\ piv_df[r].valid => (hp /\ hn)
                      /\ ~(hp /\ hn) =>
                            /\ ~piv_df[r].valid /\ piv_df[r].abs_move = 0
                            /\ piv_df[r].rejection_reason =
                                  (IF ~hp THEN "Not higher than previous bars"
                                   ELSE "Not higher than next bars")
                /\ \A r \in RowsOf(i, "L") :
                      /\ piv_df[r].price = At(lows, i)
                      /\ piv_df[r].valid => (lp /\ ln)
                      /\ ~(lp /\ ln) =>
                            /\ ~piv_df[r].valid /\ piv_df[r].abs_move = 0
                            /\ piv_df[r].rejection_reason =
                                  (IF ~lp THEN "Not lower than previous bars"
                                   ELSE "Not lower than next bars")

\* a returned table holding a High candidate that dominates its left window
\* only and a Low candidate that dominates its right window only
C1_Witness ==
    /\ PivotsReturned
    /\ \E i \in ScannedBars :
          /\ RowsOf(i, "H") # {}
          /\ HighDominates(i, LeftBars(i)) /\ ~HighDominates(i, RightBars(i))
    /\ \E i \in ScannedBars :
          /\ RowsOf(i, "L") # {}
          /\ ~LowDominates(i, LeftBars(i)) /\ LowDominates(i, RightBars(i))

LeastLow(side) == CHOOSE m \in {At(lows, k) : k \in side} : \A k \in side : m <= At(lows, k)
GreatestHigh(side) == CHOOSE m \in {At(highs, k) : k \in side} : \A k \in side : m >= At(highs, k)

\* C2: with the default return_all, every bar that strictly dominates both
\* windows as a pivot high has one High row; the row is valid iff
\* high[i] - (least low of the left window) >= M and high[i] - (least low of
\* the right window) >= M, its move is the smaller of the two side moves and
\* it carries a rejection reason iff it is not valid.  Mirrored for pivot
\* lows with (greatest high of each window) - low[i].
C2_ValidIffBothMoves ==
    PivotsReturned =>
        \A i \in ScannedBars :
            /\ (HighDominates(i, LeftBars(i)) /\ HighDominates(i, RightBars(i))) =>
                  LET mp == At(highs, i) - LeastLow(LeftBars(i))
                      mn == At(highs, i) - LeastLow(RightBars(i))
                  IN  /\ RowsOf(i, "H") # {}
                      /\ \A r \in RowsOf(i, "H") :
                            /\ piv_df[r].valid <=> (mp >= min_move /\ mn >= min_move)
                            /\ piv_df[r].abs_move <= mp /\ piv_df[r].abs_move <= mn
                            /\ piv_df[r].abs_move \in {mp, mn}
                            /\ (piv_df[r].rejection_reason # None) <=> ~piv_df[r].valid
            /\ (LowDominates(i, LeftBars(i)) /\ LowDominates(i, RightBars(i))) =>
                  LET mp == GreatestHigh(LeftBars(i)) - At(lows, i)
                      mn == GreatestHigh(RightBars(i)) - At(lows, i)
                  IN  /\ RowsOf(i, "L") # {}
                      /\ \A r \in RowsOf(i, "L") :
                            /\ piv_df[r].valid <=> (mp >= min_move /\ mn >= min_move)
                            /\ piv_df[r].abs_move <= mp /\ piv_df[r].abs_move <= mn
                            /\ piv_df[r].abs_move \in {mp, mn}
                            /\ (piv_df[r].rejection_reason # None) <=> ~piv_df[r].valid

\* a two-sided pivot high whose side moves differ and is rejected because
\* only one of them reaches M, next to a valid two-sided pivot low
C2_Witness ==
    /\ PivotsReturned
    /\ \E r \in DOMAIN piv_df :
          /\ piv_df[r].type = "H" /\ ~piv_df[r].valid
          /\ piv_df[r].rejection_reason = "Insufficient movement"
          /\ piv_df[r].abs_move < min_move
          /\ At(highs, piv_df[r].idx) - LeastLow(LeftBars(piv_df[r].idx)) >= min_move
    /\ \E r \in DOMAIN piv_df :
          piv_df[r].type = "L" /\ piv_df[r].valid /\ piv_df[r].rejection_reason = None

----------------------------------------------------------------------------
(* Properties of project_intervals and count_overlaps *)

BusinessDay(d) == d % 7 \notin {5, 6} /\ d \notin holiday_set

Source(k) == results[k][1]
Interval(k) == results[k][2]
Projected(k) == results[k][3]

\* C3: in calendar-day mode every recorded projection of pivot p and
\* interval n keeps p's time of day and lies on a business day; that day is
\* p + n days when p + n days is a business day and otherwise the latest
\* business day before it (no business day lies between the recorded day and
\* p + n days), never a following one.  With n = 0 it is p itself when p is a
\* business day, else the nearest preceding business day.
C3_PrecedingBusinessDay ==
    ~use_bars =>
        \A k \in DOMAIN results :
            LET target == Source(k).day + Interval(k)
            IN  /\ Projected(k).minute = Source(k).minute
                /\ BusinessDay(Projected(k).day)
                /\ Projected(k).day <= target
                /\ \A d \in (Projected(k).day + 1) .. target : ~BusinessDay(d)

\* the first business day after day d
RECURSIVE FollowingBusinessDay(_)
FollowingBusinessDay(d) == IF BusinessDay(d + 1) THEN d + 1 ELSE FollowingBusinessDay(d + 1)

\* a calendar-day run that projected a non-business pivot with interval 0
\* and a date whose following business day was nearer than the recorded one
C3_Witness ==
    /\ ~use_bars /\ pcProject = "returned"
    /\ \E k \in DOMAIN results :
          Interval(k) = 0 /\ ~BusinessDay(Source(k).day) /\ Projected(k).day < Source(k).day
    /\ \E k \in DOMAIN results :
          LET target == Source(k).day + Interval(k)
          IN  /\ ~BusinessDay(target)
              /\ FollowingBusinessDay(target) - target < target - Projected(k).day

\* C4: the day scans of project_intervals (the backward and forward
\* business-day scans of calendar-day mode, the next-trading-day rollover of
\* bar-count mode) are capped: whatever the calendar, no scan makes more than
\* ScanCap iterations (a scan that would need more stops with a
\* configuration error instead of going on).
C4_ScanCapped == longest_scan <= ScanCap

\* C5: in bar-count mode every projected timestamp has a time of day within
\* the 09:15-15:29 session, whatever the pivot's own time of day or date.
C5_InsideSession ==
    use_bars =>
        \A k \in DOMAIN results :
            9 * 60 + 15 <= Projected(k).minute /\ Projected(k).minute <= 15 * 60 + 29

RECURSIVE SumOver(_, _)
SumOver(f, S) ==
    IF S = {} THEN 0
    ELSE LET x == CHOOSE x \in S : TRUE IN f[x] + SumOver(f, S \ {x})

\* C6: count_overlaps maps each distinct projected timestamp to the number
\* of projections whose projected timestamp equals it exactly; the counts
\* add up to the number of projections.
C6_OverlapCounts ==
    pcProject = "counted" =>
        /\ DOMAIN overlaps = {Projected(k) : k \in DOMAIN results}
        /\ \A t \in DOMAIN overlaps :
              overlaps[t] = Cardinality({k \in DOMAIN results : Projected(k) = t})
        /\ SumOver(overlaps, DOMAIN overlaps) = Len(results)

\* counted projections with a group of two or more, and two groups on the
\* same date at different times of day
C6_Witness ==
    /\ pcProject = "counted"
    /\ \E t \in DOMAIN overlaps : overlaps[t] >= 2
    /\ \E t, u \in DOMAIN overlaps : t.day = u.day /\ t.minute # u.minute

----------------------------------------------------------------------------
(* Properties of the backtester *)

Present(d) == \E k \in DOMAIN IndexDays : IndexDays[k] = d
BarsBefore(d) == Cardinality({k \in DOMAIN IndexDays : IndexDays[k] < d})
BarsAfter(d) == Cardinality({k \in DOMAIN IndexDays : IndexDays[k] > d})

\* the close of the bar j places after the bar dated d (j = 0: the bar itself)
CloseAfter(d, j) == price_data.Close[BarsBefore(d) + 1 + j]

RECURSIVE SumTo(_, _)
SumTo(f, n) == IF n = 0 THEN 0 ELSE f[n] + SumTo(f, n - 1)

\* least-squares slope > 0 for the n closes before the bar dated d, taken at
\* x = 0 .. n-1: n * Sum(x * y) - Sum(x) * Sum(y) > 0
SlopeUp(d, n) ==
    LET y == [x \in 1 .. n |-> price_data.Close[BarsBefore(d) - n + x]]
        xs == [x \in 1 .. n |-> x - 1]
        xy == [x \in 1 .. n |-> (x - 1) * y[x]]
    IN  n * SumTo(xy, n) - SumTo(xs, n) * SumTo(y, n) > 0

\* C7: with trend lookback L, a projection whose projected bar has fewer
\* than L bars before it fails with the insufficient-history reason, one with
\* at least L bars before it never fails for that reason, and a reported
\* prior trend is the trend of exactly the L closes before the projected bar
\* (UP iff their least-squares slope is > 0, else DOWN).
C7_LookbackHonoured ==
    \A k \in DOMAIN validation_results :
        LET r == validation_results[k]
            d == r.projected_date
        IN  Present(d) =>
              /\ BarsBefore(d) < lookback_candles =>
                    r.reason = "Insufficient data before projection"
              /\ BarsBefore(d) >= lookback_candles =>
                    /\ r.reason # "Insufficient data before projection"
                    /\ r.prior_trend # None =>
                          r.prior_trend = (IF SlopeUp(d, lookback_candles) THEN "UP" ELSE "DOWN")

\* the future bars (1-based within the window) that complete a run of
\* min_success_candles consecutive closes beyond the projected bar's close
RunEnds(r) ==
    LET d == r.projected_date
        Beyond(j) == IF r.prior_trend = "UP" THEN CloseAfter(d, j) < CloseAfter(d, 0)
                     ELSE CloseAfter(d, j) > CloseAfter(d, 0)
    IN  {j \in min_success_candles .. tolerance_window :
            \A i \in (j - min_success_candles + 1) .. j : Beyond(i)}

\* C8: for a projected bar that is present, has enough history and at least W
\* bars after it, the result is a success iff the W bars after it hold a run
\* of min_success_candles consecutive closes strictly below (prior trend UP)
\* or strictly above (prior trend DOWN) the projected bar's close; on success
\* candles-to-reversal is the window index of the bar completing the first
\* such run, minus min_success_candles, plus 1, which lies in
\* 1 .. W - min_success_candles + 1; otherwise the result is a failure with
\* reason 'No reversal within window' and candles-to-reversal 0.
C8_ReversalRun ==
    \A k \in DOMAIN validation_results :
        LET r == validation_results[k]
            d == r.projected_date
        IN  (Present(d) /\ BarsBefore(d) >= DefaultLookback /\ BarsAfter(d) >= tolerance_window) =>
              /\ r.prior_trend \in {"UP", "DOWN"}
              /\ r.success <=> (RunEnds(r) # {})
              /\ r.success =>
                    /\ r.reason = "Success"
                    /\ \E j \in RunEnds(r) :
                          /\ \A i \in RunEnds(r) : j <= i
                          /\ r.candles_to_reversal = j - min_success_candles + 1
                          /\ r.reversal_date = IndexDays[BarsBefore(d) + 1 + j]
                    /\ r.candles_to_reversal \in 1 .. (tolerance_window - min_success_candles + 1)
              /\ ~r.success =>
                    /\ r.reason = "No reversal within window"
                    /\ r.candles_to_reversal = 0

\* a success after a broken run: two consecutive closes were required, the
\* first bar after the projected bar did not qualify, the next two did
C8_Witness ==
    \E k \in DOMAIN validation_results :
        /\ validation_results[k].success
        /\ min_success_candles = 2
        /\ validation_results[k].candles_to_reversal = 2
        /\ validation_results[k].prior_trend = "UP"

\* C9: a result that fails because the projected date is absent from the
\* series, or because fewer than W bars follow the projected bar, carries
\* that reason and has its prior-trend field empty (no UP / DOWN) and its
\* candles-to-reversal field empty (0).
C9_FailureFieldsEmpty ==
    \A k \in DOMAIN validation_results :
        LET r == validation_results[k]
        IN  /\ ~Present(r.projected_date) => r.reason = "Projected date not in data"
            /\ r.reason \in {"Projected date not in data", "Insufficient future data"} =>
                  /\ ~r.success
                  /\ r.prior_trend = None
                  /\ r.candles_to_reversal = 0

\* C10: analyze_all_projections never aborts; it yields one result per
\* projection, in input order, tagged with the projection's source date,
\* interval and projected date; and a projection with insufficient history
\* (fewer than lookback_candles bars before the projected bar), a projected
\* date missing from the series or fewer than W bars after the projected bar
\* yields a failed result with a reason.
C10_OneResultPerProjection ==
    /\ pcBacktest # "raised"
    /\ Len(validation_results) = Len(projections)
    /\ \A k \in DOMAIN validation_results :
          LET r == validation_results[k]
              d == projections[k][3]
          IN  /\ r.source_date = projections[k][1]
              /\ r.interval = projections[k][2]
              /\ r.projected_date = d
              /\ (\/ ~Present(d)
                  \/ BarsBefore(d) < lookback_candles
                  \/ BarsAfter(d) < tolerance_window) =>
                     (~r.success /\ r.reason \notin {"Success", None})

----------------------------------------------------------------------------
(* Properties of calculate_symmetry_score and classify_triangle *)

LeftDuration == symmetry_args.pivot_idx - symmetry_args.left_idx
RightDuration == symmetry_args.right_idx - symmetry_args.pivot_idx
LeftMove == Abs(symmetry_args.pivot_price - symmetry_args.left_price)
RightMove == Abs(symmetry_args.pivot_price - symmetry_args.right_price)

\* the term 100 * smaller / larger of two non-negative quantities, 100 when
\* the larger is zero, as a fraction
TermOf(a, b) ==
    IF Max2(a, b) = 0 THEN [num |-> 100, den |-> 1]
    ELSE [num |-> 100 * Min2(a, b), den |-> Max2(a, b)]

\* C11: for durations >= 0 and any prices calculate_symmetry_score returns,
\* without raising, a number in [0, 100]: the mean of the time term and the
\* price term, where a term whose larger quantity is zero counts as 100.
C11_SymmetryInRange ==
    pcShapes = "scored" =>
        LET t == TermOf(LeftDuration, RightDuration)
            m == TermOf(LeftMove, RightMove)
        IN  /\ symmetry_score.status = "ok"
            /\ 0 <= symmetry_score.num
            /\ symmetry_score.num <= 100 * symmetry_score.den
            /\ symmetry_score.num * (2 * t.den * m.den)
                   = (t.num * m.den + m.num * t.den) * symmetry_score.den

\* the score of the two pivots of the scenario ("symmetry >= 90")
ScenarioScore == [status |-> "ok", num |-> 90, den |-> 1]

ScenarioRetained ==
    meets_criteria([type |-> triangle_type, symmetry_score |-> ScenarioScore],
                   {"equilateral"}, 90)

NearEqualSides == <<Sq(100), Sq(102), Sq(101)>>
LongBaseSides == <<Sq(100), Sq(102), Sq(300)>>

\* C13 as stated: with tolerance 5% the sides (10.0, 10.2, 10.1) are
\* classified equilateral and the sides (10.0, 10.2, 30.0) scalene, so with
\* allowed shapes {equilateral} the first pivot is retained and the second
\* rejected.
C13_LongBaseScalene ==
    (pcShapes = "classified" /\ tolerance = 5) =>
        /\ sides = NearEqualSides => (triangle_type = "equilateral" /\ ScenarioRetained)
        /\ sides = LongBaseSides => (triangle_type = "scalene" /\ ~ScenarioRetained)

\* C13 amended: with tolerance 5% the sides (10.0, 10.2, 10.1) are
\* classified equilateral and the sides (10.0, 10.2, 30.0) isosceles (10.2 /
\* 10.0 is within the tolerance), so with allowed shapes {equilateral} the
\* first pivot is retained and the second rejected.
C13_LongBaseIsosceles ==
    (pcShapes = "classified" /\ tolerance = 5) =>
        /\ sides = NearEqualSides => (triangle_type = "equilateral" /\ ScenarioRetained)
        /\ sides = LongBaseSides => (triangle_type = "isosceles" /\ ~ScenarioRetained)

\* classify_triangle has returned for the sides (10.0, 10.2, 30.0) at 5%
C13_Witness ==
    pcShapes = "classified" /\ tolerance = 5 /\ sides = LongBaseSides

\* the ratio of the longer to the shorter of two sides (given by their
\* squares) is at most 1 + tolerance / 100
CloseWithin(x, y, tol) ==
    Sq(100) * Max2(x, y) <= Sq(100 + tol) * Min2(x, y)

CloseSides(x, y) == CloseWithin(x, y, tolerance)

Longest(s) == Max2(s[1], Max2(s[2], s[3]))
Shortest(s) == Min2(s[1], Min2(s[2], s[3]))

\* the shape of three sides: equilateral iff longest / shortest is within
\* the tolerance, else isosceles iff some pair is, else scalene
ShapeRule(s, tol) ==
    IF CloseWithin(Longest(s), Shortest(s), tol) THEN "equilateral"
    ELSE IF \E i \in 1 .. 3, j \in 1 .. 3 : i < j /\ CloseWithin(s[i], s[j], tol)
    THEN "isosceles"
    ELSE "scalene"

LongestSide == Longest(sides)
ShortestSide == Shortest(sides)

ScaleFactors == {2, 3}

\* C14: for three positive sides given in any order, the shape is
\* equilateral iff longest / shortest <= 1 + tolerance / 100, otherwise
\* isosceles iff at least one of the three pairwise ratios is within that
\* bound, otherwise scalene; multiplying all sides by the same positive
\* factor leaves the shape unchanged (checked on the sides that are f times
\* a smaller triple: their squares are divisible by f * f).
C14_ShapeRule ==
    pcShapes = "classified" =>
        /\ triangle_type = ShapeRule(sides, tolerance)
        /\ \A f \in ScaleFactors :
              (\A k \in 1 .. 3 : sides[k] % Sq(f) = 0) =>
                  classify_triangle([k \in 1 .. 3 |-> sides[k] \div Sq(f)], tolerance)
                      = triangle_type

\* an isosceles triangle whose close pair is given last, longest side first
C14_Witness ==
    /\ pcShapes = "classified" /\ triangle_type = "isosceles"
    /\ sides[1] = LongestSide /\ CloseSides(sides[2], sides[3])
    /\ sides[2] < sides[3] /\ sides[3] < sides[1]

----------------------------------------------------------------------------
(* Properties of filter_pivots_by_triangle and of the pipeline *)

FilterReturned == pcPipeline \in {"project", "project_raised", "projected"}

InTable(side) == {k \in side : 0 <= k /\ k < Len(lows)}

\* the base of a window: its lowest low, the earliest bar on a tie
BaseBar(side) ==
    CHOOSE k \in side : /\ At(lows, k) = LeastLow(side)
                        /\ \A j \in side : At(lows, j) = LeastLow(side) => k <= j

\* squared distance of the chart points (bar i, price p) and (bar j, price q)
SideSq(i, p, j, q) ==
    Sq((DayOf(j) - DayOf(i)) * triangle_settings.time_scale) + Sq(q - p)

\* the triangle of a pivot high at bar i: apex (i, high), bases at the
\* lowest lows of the R bars before and the R bars after
TriangleDefined(i) == InTable(LeftBars(i)) # {} /\ InTable(RightBars(i)) # {}

TriangleSides(i) ==
    LET l == BaseBar(InTable(LeftBars(i)))
        r == BaseBar(InTable(RightBars(i)))
    IN  <<SideSq(i, At(highs, i), l, At(lows, l)),
          SideSq(i, At(highs, i), r, At(lows, r)),
          SideSq(l, At(lows, l), r, At(lows, r))>>

\* the symmetry score of that triangle, as a fraction
TriangleSymmetry(i) ==
    LET l == BaseBar(InTable(LeftBars(i)))
        r == BaseBar(InTable(RightBars(i)))
        t == TermOf(i - l, r - i)
        m == TermOf(At(highs, i) - At(lows, l), At(highs, i) - At(lows, r))
    IN  [num |-> t.num * m.den + m.num * t.den, den |-> 2 * t.den * m.den]

TriangleShape(i) == ShapeRule(TriangleSides(i), triangle_settings.tolerance)

Retained(row) ==
    \/ row.type # "H"
    \/ /\ TriangleDefined(row.idx)
       /\ TriangleShape(row.idx) \in triangle_settings.types
       /\ TriangleSymmetry(row.idx).num
              >= triangle_settings.min_symmetry * TriangleSymmetry(row.idx).den

TriangleColumns == {"triangle_type", "symmetry_score", "triangle_info"}

WithoutTriangle(row) == [c \in DOMAIN row \ TriangleColumns |-> row[c]]

\* C12: with filtering enabled the returned table holds, in the order of the
\* input, every pivot low unchanged and without triangle attributes, and a
\* pivot high iff its triangle is defined, its shape is allowed and its
\* symmetry score is at least the minimum; the retained highs carry their
\* triangle's shape and score.  With filtering disabled the table is
\* returned unchanged.
C12_FilterKeeps ==
    FilterReturned =>
        IF ~triangle_settings.enabled THEN pivots_df = piv_df
        ELSE /\ [k \in DOMAIN pivots_df |-> WithoutTriangle(pivots_df[k])]
                    = SelectSeq(piv_df, Retained)
             /\ \A k \in DOMAIN pivots_df :
                   LET row == pivots_df[k]
                   IN  IF row.type = "H"
                       THEN /\ TriangleColumns \subseteq DOMAIN row
                            /\ row.triangle_type = TriangleShape(row.idx)
                            /\ row.symmetry_score.status = "ok"
                            /\ row.symmetry_score.num * TriangleSymmetry(row.idx).den
                                   = TriangleSymmetry(row.idx).num * row.symmetry_score.den
                            /\ row.triangle_info.type = row.triangle_type
                       ELSE DOMAIN row \cap TriangleColumns = {}

\* an enabled filter that kept a pivot high, passed a pivot low and dropped
\* a pivot high of an allowed shape for its symmetry score alone
C12_Witness ==
    /\ FilterReturned /\ triangle_settings.enabled
    /\ \E k \in DOMAIN pivots_df : pivots_df[k].type = "H"
    /\ \E k \in DOMAIN pivots_df : pivots_df[k].type = "L"
    /\ \E k \in DOMAIN piv_df :
          /\ piv_df[k].type = "H" /\ ~Retained(piv_df[k])
          /\ TriangleShape(piv_df[k].idx) \in triangle_settings.types

\* a pivot the spec accepts at bar i: strict dominance over both windows
\* and a move of at least min_move away from both of them
Accepted(i, kind) ==
    /\ i \in ScannedBars
    /\ IF kind = "H"
       THEN /\ HighDominates(i, LeftBars(i)) /\ HighDominates(i, RightBars(i))
            /\ At(highs, i) - LeastLow(LeftBars(i)) >= min_move
            /\ At(highs, i) - LeastLow(RightBars(i)) >= min_move
       ELSE /\ LowDominates(i, LeftBars(i)) /\ LowDominates(i, RightBars(i))
            /\ GreatestHigh(LeftBars(i)) - At(lows, i) >= min_move
            /\ GreatestHigh(RightBars(i)) - At(lows, i) >= min_move

\* C18: end to end, every row that comes out of the triangle filter with
\* triangle attributes is an accepted pivot high, and the source of every
\* projection is the date of an accepted pivot (high or low), with the
\* filter enabled or disabled.
C18_SourcesAccepted ==
    /\ FilterReturned =>
          \A k \in DOMAIN pivots_df :
              "triangle_info" \in DOMAIN pivots_df[k] => Accepted(pivots_df[k].idx, "H")
    /\ pcPipeline = "projected" =>
          \A k \in DOMAIN results :
              \E i \in ScannedBars, kind \in {"H", "L"} :
                  Stamp(i) = results[k][1] /\ Accepted(i, kind)

----------------------------------------------------------------------------
(* Further properties of detect_pivots, the backtester and project_intervals *)

\* C15: a window radius R not smaller than the length of the series (the
\* empty series included) is a configuration error that aborts the run:
\* detect_pivots does not return a pivot table for it.
C15_RadiusRejected == pivot_range >= Len(highs) => pcPivots # "done"

ResultsOf(iv) == {k \in DOMAIN validation_results : validation_results[k].interval = iv}
SuccessesOf(iv) == {k \in ResultsOf(iv) : validation_results[k].success}
ImmediateOf(iv) == {k \in SuccessesOf(iv) : validation_results[k].candles_to_reversal = 1}

CandlesToReversal == [k \in DOMAIN validation_results |-> validation_results[k].candles_to_reversal]
TotalCounts == [iv \in DOMAIN interval_stats |-> interval_stats[iv].total_count]

\* C16: analyze_intervals returns one entry per interval occurring in the
\* results, with the number of results of that interval, the number of
\* successes, the number of successes with candles-to-reversal 1, the
\* success rate 100 * successes / total and the mean candles-to-reversal over
\* the successes only (0 when there are none); immediate <= successes <=
\* total, and the totals add up to the number of results.
C16_IntervalStats ==
    pcBacktest = "done" =>
        /\ DOMAIN interval_stats = {validation_results[k].interval : k \in DOMAIN validation_results}
        /\ \A iv \in DOMAIN interval_stats :
              LET st == interval_stats[iv]
                  total == Cardinality(ResultsOf(iv))
                  wins == Cardinality(SuccessesOf(iv))
              IN  /\ st.total_count = total
                  /\ st.success_count = wins
                  /\ st.immediate_reversals = Cardinality(ImmediateOf(iv))
                  /\ st.success_rate.num * total = 100 * wins * st.success_rate.den
                  /\ IF wins = 0 THEN st.avg_candles_to_reversal.num = 0
                     ELSE st.avg_candles_to_reversal.num * wins
                              = SumOver(CandlesToReversal, SuccessesOf(iv))
                                    * st.avg_candles_to_reversal.den
                  /\ st.immediate_reversals <= st.success_count
                  /\ st.success_count <= st.total_count
        /\ SumOver(TotalCounts, DOMAIN interval_stats) = Len(validation_results)

\* statistics over two results of one interval: a failure and a success that
\* is not immediate
C16_Witness ==
    /\ pcBacktest = "done"
    /\ \E iv \in DOMAIN interval_stats :
          /\ interval_stats[iv].total_count = 2
          /\ interval_stats[iv].success_count = 1
          /\ interval_stats[iv].immediate_reversals = 0

ValidationFields == {"success", "reversal_date", "candles_to_reversal", "prior_trend", "reason"}

\* C19: the source pivot's type has no influence on the validation: for the
\* projected date of every result, validate_reversal called with type H and
\* called with type L both return the validation the result holds.
C19_SourceTypeIgnored ==
    \A k \in DOMAIN validation_results :
        \A t \in {"H", "L"} :
            LET v == validate_reversal(price_data, validation_results[k].projected_date, t,
                                       tolerance_window, min_success_candles)
            IN  \A c \in ValidationFields : v[c] = validation_results[k][c]

\* a successful reversal of a DOWN trend whose source candle is of type H
C19_Witness ==
    \E k \in DOMAIN validation_results :
        /\ validation_results[k].success
        /\ validation_results[k].prior_trend = "DOWN"
        /\ source_type(price_data, get_loc(validation_results[k].source_date)) = "H"

ProjectReturned == pcProject \in {"returned", "counted"}

Occurrences(s, x) == Cardinality({k \in DOMAIN s : s[k] = x})

\* C17: in both modes the returned list has one projection per (pivot row,
\* interval) pair: its length is rows x intervals; the pivots come in
\* ascending timestamp order (each pivot row contributing one block) and
\* within a pivot the intervals in their configured order; the source of a
\* projection is its pivot's timestamp.
C17_OnePerPair ==
    ProjectReturned =>
        /\ Len(results) = Len(pivots_idx) * Len(intervals)
        /\ \A k \in DOMAIN results :
              /\ Interval(k) = intervals[((k - 1) % Len(intervals)) + 1]
              /\ Source(k) = Source(k - ((k - 1) % Len(intervals)))
              /\ k > 1 => TsLeq(Source(k - 1), Source(k))
        /\ \A x \in PivotStamps :
              Occurrences([k \in DOMAIN results |-> Source(k)], x)
                  = Len(intervals) * Occurrences(pivots_idx, x)

\* a bar-mode run over a pivot table given in descending order, with two
\* different intervals
C17_Witness ==
    /\ ProjectReturned /\ use_bars
    /\ Len(pivots_idx) = 2 /\ Len(intervals) = 2
    /\ ~TsLeq(pivots_idx[1], pivots_idx[2])
    /\ intervals[1] > intervals[2]

SessionOpen == 9 * 60 + 15
LastBarStart == 15 * 60 + 30 - interval_minutes

\* ts is the start of a session bar of a business day
SessionBar(ts) ==
    /\ BusinessDay(ts.day)
    /\ SessionOpen <= ts.minute /\ ts.minute <= LastBarStart
    /\ (ts.minute - SessionOpen) % interval_minutes = 0

\* the session bar after the one starting at ts: the next one of the day, or
\* the 09:15 bar of the next business day after the day's last bar
NextBar(ts) ==
    IF ts.minute + interval_minutes <= LastBarStart
    THEN [day |-> ts.day, minute |-> ts.minute + interval_minutes]
    ELSE [day |-> FollowingBusinessDay(ts.day), minute |-> SessionOpen]

RECURSIVE NthBar(_, _)
NthBar(ts, n) == IF n = 0 THEN ts ELSE NthBar(NextBar(ts), n - 1)

\* C20: in bar-count mode, for a pivot on the start of a session bar of a
\* business day and N >= 1, the projected timestamp is the start of the N-th
\* session bar after the pivot's bar, the bar after the last bar of a day
\* being the 09:15 bar of the next business day; it is strictly later than
\* the pivot.
C20_NthSessionBar ==
    use_bars =>
        \A k \in DOMAIN results :
            (SessionBar(Source(k)) /\ Interval(k) >= 1) =>
                /\ Projected(k) = NthBar(Source(k), Interval(k))
                /\ ~TsLeq(Projected(k), Source(k))

====
